------------------------------ MODULE Spec2Model ------------------------------
(***************************************************************************)
(* i.ai: the GRASS GIS assistant of src/i.ai.py.                           *)
(*                                                                         *)
(* main() asks a local inference service for a text, and with the e flag   *)
(* hands that text to extract_and_execute_commands, which scans it with    *)
(* nine regular expressions, keeps the matches without repetition and      *)
(* dispatches each one to gs.read_command or to subprocess.run.            *)
(*                                                                         *)
(* A text is a sequence of one-character strings, so that the regular      *)
(* expressions, str.split, str.startswith and the "in" test are computed   *)
(* character by character, as Python computes them.                        *)
(***************************************************************************)
EXTENDS Integers, Sequences, FiniteSets, TLC

(***************************************************************************)
(* Characters and the character classes of Python's re module.             *)
(***************************************************************************)
LowerLetters == <<"a", "b", "c", "d", "e", "f", "g", "h", "i", "j", "k", "l", "m", "n", "o", "p", "q", "r", "s", "t", "u", "v", "w", "x", "y", "z">>
UpperLetters == <<"A", "B", "C", "D", "E", "F", "G", "H", "I", "J", "K", "L", "M", "N", "O", "P", "Q", "R", "S", "T", "U", "V", "W", "X", "Y", "Z">>
Digits == {"0", "1", "2", "3", "4", "5", "6", "7", "8", "9"}

\* the characters, besides letters, digits and white space, that the texts use
Punctuation == {".", "=", "-", ",", ":", "(", ")", "'", "/"}

\* \s
Whitespace == {" ", "\n", "\t"}

\* \w
WordChars ==
    {LowerLetters[n] : n \in DOMAIN LowerLetters}
        \cup {UpperLetters[n] : n \in DOMAIN UpperLetters} \cup Digits \cup {"_"}

\* [^\s\n]
NonSpace == (WordChars \cup Punctuation) \ Whitespace

\* re.IGNORECASE: the lower-case form of each upper-case letter
casefold ==
    [c \in {UpperLetters[n] : n \in DOMAIN UpperLetters} |->
        LowerLetters[CHOOSE n \in DOMAIN UpperLetters : UpperLetters[n] = c]]

lower(c) == IF c \in DOMAIN casefold THEN casefold[c] ELSE c

(***************************************************************************)
(* The regular expressions of command_patterns.  Each of them is           *)
(*     \b ( name  \w+  (?:\s+[^\s\n]+)* )            patterns 1 to 8       *)
(*     \b ( name | name | ... ) (?:\s+[^\s\n]+)*     pattern 9             *)
(* and is given here by its names, whether \w+ follows the name, and       *)
(* whether the argument part lies inside the capturing group.              *)
(***************************************************************************)
command_patterns ==
    <<
      [names |-> << <<"g", ".">> >>, word |-> TRUE, group_args |-> TRUE],
      [names |-> << <<"r", ".">> >>, word |-> TRUE, group_args |-> TRUE],
      [names |-> << <<"v", ".">> >>, word |-> TRUE, group_args |-> TRUE],
      [names |-> << <<"i", ".">> >>, word |-> TRUE, group_args |-> TRUE],
      [names |-> << <<"d", "b", ".">> >>, word |-> TRUE, group_args |-> TRUE],
      [names |-> << <<"t", ".">> >>, word |-> TRUE, group_args |-> TRUE],
      [names |-> << <<"m", ".">> >>, word |-> TRUE, group_args |-> TRUE],
      [names |-> << <<"g", "d", "a", "l">> >>, word |-> TRUE, group_args |-> TRUE],
      [names |-> << <<"w", "g", "e", "t">>,
                    <<"c", "u", "r", "l">>,
                    <<"u", "n", "z", "i", "p">>,
                    <<"t", "a", "r">>,
                    <<"g", "z", "i", "p">>,
                    <<"a", "w", "k">>,
                    <<"s", "e", "d">>,
                    <<"g", "r", "e", "p">> >>,
       word |-> FALSE, group_args |-> FALSE] >>

\* \b at position i of s: exactly one of s[i-1] and s[i] is a word character
WordBoundary(s, i) ==
    LET before == i > 1 /\ s[i - 1] \in WordChars
        after == i <= Len(s) /\ s[i] \in WordChars
    IN  before # after

\* the literal lit, in lower case, stands at position i of s (re.IGNORECASE)
MatchesLiteral(s, i, lit) ==
    /\ i + Len(lit) - 1 <= Len(s)
    /\ \A j \in 1..Len(lit) : lower(s[i + j - 1]) = lit[j]

RECURSIVE RunEnd(_, _, _)
\* a greedy  class*  from position i of s: the position after the run
RunEnd(s, i, class) ==
    IF i <= Len(s) /\ s[i] \in class THEN RunEnd(s, i + 1, class) ELSE i

RECURSIVE ArgsEndAll(_, _)
\* (?:\s+[^\s\n]+)*  from position e of s, greedy: the position after it.
\* \s+ takes every white-space character, line breaks among them.
ArgsEndAll(s, e) ==
    LET t == RunEnd(s, e, Whitespace)
        u == RunEnd(s, t, NonSpace)
    IN  IF t > e /\ u > t THEN ArgsEndAll(s, u) ELSE e

\* a pattern without its argument part
ArgsEndNone(s, e) == e

\* the argument part of a pattern
ArgsEnd(s, e) == ArgsEndAll(s, e)

NoMatch == [found |-> FALSE, start |-> 0, name_end |-> 0, stop |-> 0, group |-> <<>>]

\* one attempt of re to match pattern p at position i of s.  start..stop-1 is
\* the whole match, name_end the position after name\w+ (or after the name),
\* group the text of the capturing group, which is what re.findall returns.
MatchAt(p, s, i) ==
    LET alts == {a \in DOMAIN p.names : MatchesLiteral(s, i, p.names[a])}
    IN  IF ~WordBoundary(s, i) \/ alts = {} THEN NoMatch
        ELSE LET a == CHOOSE x \in alts : \A y \in alts : x <= y
                 n == i + Len(p.names[a])
                 w == IF p.word THEN RunEnd(s, n, WordChars) ELSE n
                 e == ArgsEnd(s, w)
                 g == IF p.group_args THEN e ELSE w
             IN  IF p.word /\ w = n THEN NoMatch
                 ELSE [found |-> TRUE, start |-> i, name_end |-> w, stop |-> e,
                       group |-> SubSeq(s, i, g - 1)]

RECURSIVE finditer(_, _, _)
\* the matches of p in s from position i on, left to right, not overlapping
finditer(p, s, i) ==
    IF i > Len(s) THEN <<>>
    ELSE LET m == MatchAt(p, s, i)
         IN  IF m.found THEN <<m>> \o finditer(p, s, m.stop)
             ELSE finditer(p, s, i + 1)

\* re.findall(pattern, response, re.IGNORECASE | re.MULTILINE): the text of
\* group 1 of each match.  No pattern has ^ or $, which is all that
\* re.MULTILINE changes.
findall(p, s) ==
    LET ms == finditer(p, s, 1) IN [n \in DOMAIN ms |-> ms[n].group]

\* an append without the membership test
AppendAlways(cmds, match) == Append(cmds, match)

\* if match not in executed_commands: executed_commands.append(match)
AppendIfNew(cmds, match) ==
    IF \E n \in DOMAIN cmds : cmds[n] = match THEN cmds ELSE Append(cmds, match)

RECURSIVE AddMatches(_, _)
\* for match in matches: ...
AddMatches(cmds, matches) ==
    IF matches = <<>> THEN cmds
    ELSE AddMatches(AppendIfNew(cmds, Head(matches)), Tail(matches))

RECURSIVE ScanPatterns(_, _, _)
\* for pattern in command_patterns: ...   (from pattern n on)
ScanPatterns(cmds, s, n) ==
    IF n > Len(command_patterns) THEN cmds
    ELSE ScanPatterns(AddMatches(cmds, findall(command_patterns[n], s)), s, n + 1)

\* the candidate list extract_and_execute_commands builds from a response
Extract(s) == ScanPatterns(<<>>, s, 1)


(***************************************************************************)
(* The string operations of the dispatch loop.                             *)
(***************************************************************************)
\* cmd.startswith(p)
startswith(s, p) == Len(p) <= Len(s) /\ SubSeq(s, 1, Len(p)) = p

\* x in s, for strings
contains(s, x) ==
    \E i \in 1..(Len(s) - Len(x) + 1) : SubSeq(s, i, i + Len(x) - 1) = x

RECURSIVE SplitFrom(_, _)
\* the white-space separated words of s from position i on
SplitFrom(s, i) ==
    LET a == RunEnd(s, i, Whitespace)
        b == RunEnd(s, a, NonSpace)
    IN  IF b = a THEN <<>> ELSE <<SubSeq(s, a, b - 1)>> \o SplitFrom(s, b)

\* cmd.split()
split(s) == SplitFrom(s, 1)

\* part.split('=', 1)
split_once(part) ==
    IF \E n \in DOMAIN part : part[n] = "="
    THEN LET n == CHOOSE x \in DOMAIN part :
                      part[x] = "=" /\ \A y \in 1..(x - 1) : part[y] # "="
         IN  <<SubSeq(part, 1, n - 1), SubSeq(part, n + 1, Len(part))>>
    ELSE <<part>>

\* the tuple of cmd.startswith(...), in its order
grass_prefixes ==
    << <<"g", ".">>,
      <<"r", ".">>,
      <<"v", ".">>,
      <<"i", ".">>,
      <<"d", "b", ".">>,
      <<"t", ".">>,
      <<"m", ".">>,
      <<"d", ".">>,
      <<"p", "s", ".">>,
      <<"r", "3", ".">> >>

\* the list of  any(tool in cmd for tool in [...])
system_tools ==
    << <<"w", "g", "e", "t">>,
      <<"c", "u", "r", "l">>,
      <<"u", "n", "z", "i", "p">>,
      <<"t", "a", "r">>,
      <<"g", "z", "i", "p">>,
      <<"a", "w", "k">>,
      <<"s", "e", "d">>,
      <<"g", "r", "e", "p">> >>

gdal == <<"g", "d", "a", "l">>

\* the default key of a token without '='
input == <<"i", "n", "p", "u", "t">>

\* the module registry of get_grass_modules
all_modules ==
    { <<"g", ".", "l", "i", "s", "t">>,
      <<"g", ".", "r", "e", "m", "o", "v", "e">>,
      <<"g", ".", "c", "o", "p", "y">>,
      <<"g", ".", "r", "e", "n", "a", "m", "e">>,
      <<"g", ".", "r", "e", "g", "i", "o", "n">>,
      <<"g", ".", "p", "r", "o", "j">>,
      <<"g", ".", "g", "i", "s", "e", "n", "v">>,
      <<"r", ".", "i", "n", ".", "g", "d", "a", "l">>,
      <<"r", ".", "o", "u", "t", ".", "g", "d", "a", "l">>,
      <<"r", ".", "i", "n", "f", "o">>,
      <<"r", ".", "s", "t", "a", "t", "s">>,
      <<"r", ".", "u", "n", "i", "v", "a", "r">>,
      <<"r", ".", "m", "a", "p", "c", "a", "l", "c">>,
      <<"r", ".", "s", "l", "o", "p", "e", ".", "a", "s", "p", "e", "c", "t">>,
      <<"r", ".", "w", "a", "t", "e", "r", "s", "h", "e", "d">>,
      <<"r", ".", "r", "e", "s", "a", "m", "p", "l", "e">>,
      <<"r", ".", "r", "e", "s", "c", "a", "l", "e">>,
      <<"r", ".", "c", "o", "l", "o", "r", "s">>,
      <<"v", ".", "i", "n", ".", "o", "g", "r">>,
      <<"v", ".", "o", "u", "t", ".", "o", "g", "r">>,
      <<"v", ".", "i", "n", "f", "o">>,
      <<"v", ".", "d", "b", ".", "s", "e", "l", "e", "c", "t">>,
      <<"v", ".", "d", "b", ".", "a", "d", "d", "c", "o", "l", "u", "m", "n">>,
      <<"v", ".", "b", "u", "f", "f", "e", "r">>,
      <<"v", ".", "o", "v", "e", "r", "l", "a", "y">>,
      <<"v", ".", "s", "e", "l", "e", "c", "t">>,
      <<"v", ".", "c", "e", "n", "t", "r", "o", "i", "d">>,
      <<"v", ".", "v", "o", "r", "o", "n", "o", "i">>,
      <<"v", ".", "c", "l", "e", "a", "n">>,
      <<"i", ".", "g", "r", "o", "u", "p">>,
      <<"i", ".", "t", "a", "r", "g", "e", "t">>,
      <<"i", ".", "c", "l", "a", "s", "s">>,
      <<"i", ".", "c", "l", "u", "s", "t", "e", "r">>,
      <<"i", ".", "m", "a", "x", "l", "i", "k">>,
      <<"i", ".", "s", "m", "a", "p">>,
      <<"i", ".", "v", "i">>,
      <<"i", ".", "t", "a", "s", "s", "c", "a", "p">>,
      <<"i", ".", "p", "c", "a">>,
      <<"i", ".", "f", "f", "t">>,
      <<"i", ".", "i", "f", "f", "t">>,
      <<"d", "b", ".", "c", "o", "n", "n", "e", "c", "t">>,
      <<"d", "b", ".", "s", "e", "l", "e", "c", "t">>,
      <<"d", "b", ".", "e", "x", "e", "c", "u", "t", "e">>,
      <<"d", "b", ".", "t", "a", "b", "l", "e", "s">>,
      <<"d", "b", ".", "c", "o", "l", "u", "m", "n", "s">>,
      <<"d", "b", ".", "d", "e", "s", "c", "r", "i", "b", "e">>,
      <<"d", "b", ".", "d", "r", "i", "v", "e", "r", "s">>,
      <<"d", "b", ".", "l", "o", "g", "i", "n">>,
      <<"t", ".", "c", "r", "e", "a", "t", "e">>,
      <<"t", ".", "r", "e", "g", "i", "s", "t", "e", "r">>,
      <<"t", ".", "i", "n", "f", "o">>,
      <<"t", ".", "l", "i", "s", "t">>,
      <<"t", ".", "r", "e", "m", "o", "v", "e">>,
      <<"t", ".", "s", "a", "m", "p", "l", "e">>,
      <<"t", ".", "r", "a", "s", "t", ".", "a", "g", "g", "r", "e", "g", "a", "t", "e">>,
      <<"t", ".", "r", "a", "s", "t", ".", "e", "x", "t", "r", "a", "c", "t">>,
      <<"t", ".", "v", "e", "c", "t", ".", "o", "b", "s", "e", "r", "v", "e">>,
      <<"t", ".", "v", "e", "c", "t", ".", "w", "h", "a", "t", ".", "s", "t", "r", "d", "s">>,
      <<"m", ".", "p", "r", "o", "j">>,
      <<"m", ".", "c", "o", "g", "o">>,
      <<"m", ".", "t", "r", "a", "n", "s", "f", "o", "r", "m">>,
      <<"m", ".", "m", "e", "a", "s", "u", "r", "e">>,
      <<"m", ".", "l", "p", "p">> }


(***************************************************************************)
(* The dispatch of one candidate.                                          *)
(***************************************************************************)
\* if cmd.startswith(('g.', 'r.', ...)):
IsGrass(cmd) == \E n \in DOMAIN grass_prefixes : startswith(cmd, grass_prefixes[n])

\* elif cmd.startswith('gdal') or any(tool in cmd for tool in [...]):
IsSystem(cmd) ==
    startswith(cmd, gdal) \/ \E n \in DOMAIN system_tools : contains(cmd, system_tools[n])

\* the two tests in the other order
BackendSystemFirst(cmd) ==
    IF IsSystem(cmd) THEN "subprocess.run"
    ELSE IF IsGrass(cmd) THEN "gs.read_command" ELSE "none"

\* the if / elif / else of the loop body: the interface a candidate goes to
Backend(cmd) ==
    IF IsGrass(cmd) THEN "gs.read_command"
    ELSE IF IsSystem(cmd) THEN "subprocess.run" ELSE "none"

\* params.setdefault(key, value)
SetParamKeepFirst(params, key, value) ==
    [x \in DOMAIN params \cup {key} |-> IF x \in DOMAIN params THEN params[x] ELSE value]

\* params[key] = value
SetParam(params, key, value) ==
    [x \in DOMAIN params \cup {key} |-> IF x = key THEN value ELSE params[x]]

\* '=' in part
HasEquals(part) == \E n \in DOMAIN part : part[n] = "="

RECURSIVE ParseParams(_, _)
\* for part in parts[1:]: ...  The unpacking  key, value = part.split('=', 1)
\* raises ValueError unless the split gives two strings.
ParseParams(params, parts) ==
    IF parts = <<>> THEN [ok |-> TRUE, params |-> params]
    ELSE LET part == Head(parts) IN
         IF HasEquals(part)
         THEN LET kv == split_once(part) IN
              IF Len(kv) = 2
              THEN ParseParams(SetParam(params, kv[1], kv[2]), Tail(parts))
              ELSE [ok |-> FALSE, params |-> params]
         ELSE ParseParams(SetParam(params, input, part), Tail(parts))

\* what the loop body calls for cmd: the interface and its arguments
Call(cmd) ==
    LET parts == split(cmd)
        parsed == ParseParams(<<>>, Tail(parts))
    IN  CASE Backend(cmd) = "gs.read_command" /\ parsed.ok ->
                 [api |-> "gs.read_command", module |-> parts[1],
                  params |-> parsed.params, argv |-> <<>>]
          [] Backend(cmd) = "subprocess.run" ->
                 [api |-> "subprocess.run", module |-> <<>>,
                  params |-> <<>>, argv |-> parts]
          [] OTHER ->
                 [api |-> "none", module |-> <<>>, params |-> <<>>, argv |-> <<>>]

\* what can happen in the try block for cmd.  gs.read_command returns or raises
\* CalledModuleError; subprocess.run returns with an exit status or raises
\* TimeoutExpired after timeout=60.
Events(cmd) ==
    CASE Backend(cmd) = "gs.read_command" ->
             IF Call(cmd).api = "none" THEN {"ValueError"}
             ELSE {"returned", "CalledModuleError"}
      [] Backend(cmd) = "subprocess.run" -> {"exit0", "exit1", "TimeoutExpired"}
      [] OTHER -> {"unknown"}

Raises == {"ValueError", "CalledModuleError", "TimeoutExpired"}

\* the one message of the loop body for an event: "Success", "Failed",
\* "Unknown command type", or "Error executing" of the except clause
Outcome(event) ==
    CASE event \in {"returned", "exit0"} -> "success"
      [] event = "exit1" -> "failed"
      [] event = "unknown" -> "unknown"
      [] OTHER -> "error"

Report(cmd, event) ==
    [cmd |-> cmd, call |-> Call(cmd), event |-> event, outcome |-> Outcome(event)]

\* a loop that a failure ends
AfterCandidateAbort(k, n, event) ==
    IF event \in Raises \cup {"exit1", "unknown"} THEN n + 1 ELSE k + 1

\* the index the for loop goes on with after candidate k of n: the try/except
\* lies inside the loop body, so every event leads to the next candidate
AfterCandidate(k, n, event) == k + 1

(***************************************************************************)
(* The texts the inference service may answer with, and the texts          *)
(* query_ollama makes up when the service fails.                           *)
(***************************************************************************)
MaxWords == 3
MaxArgs == 3

\* what a response is written with: module names, tool names, a line break
Words ==
    { <<"g", ".", "l", "i", "s", "t">>,
      <<"v", ".", "d", "b", ".", "s", "e", "l", "e", "c", "t">>,
      <<"w", "g", "e", "t">>,
      <<"g", "d", "a", "l", "i", "n", "f", "o">>,
      <<"G", ".", "l", "i", "s", "t">>,
      <<"\n">> }

\* the arguments a response gives a module
ArgTokens ==
    { <<"-", "p">>,
      <<"d", "e", "m">>,
      <<"w", "h", "e", "r", "e", "=", "c", "a", "t", "=", "1">>,
      <<"i", "n", "p", "u", "t", "=", "s", "r", "t", "m">> }

g_list == <<"g", ".", "l", "i", "s", "t">>

\* the scenario of the specification's section 8
ScenarioText ==
    <<"R", "u", "n", " ", "g", ".", "r", "e", "g", "i", "o", "n", " ", "-", "p", " ", "a", "n", "d", " ", "t", "h", "e", "n", " ", "r", ".", "i", "n", "f", "o", " ", "m", "a", "p", "=", "e", "l", "e", "v", "a", "t", "i", "o", "n">>

g_region == <<"g", ".", "r", "e", "g", "i", "o", "n">>
g_region_rest ==
    <<"g", ".", "r", "e", "g", "i", "o", "n", " ", "-", "p", " ", "a", "n", "d", " ", "t", "h", "e", "n", " ", "r", ".", "i", "n", "f", "o", " ", "m", "a", "p", "=", "e", "l", "e", "v", "a", "t", "i", "o", "n">>
r_info_elevation == <<"r", ".", "i", "n", "f", "o", " ", "m", "a", "p", "=", "e", "l", "e", "v", "a", "t", "i", "o", "n">>

\* result.get("response", "No response received")
NoResponseText == <<"N", "o", " ", "r", "e", "s", "p", "o", "n", "s", "e", " ", "r", "e", "c", "e", "i", "v", "e", "d">>

\* f"Error: Failed to get response from Ollama (HTTP {response.status_code})"
HttpErrorTexts ==
    { <<"E", "r", "r", "o", "r", ":", " ", "F", "a", "i", "l", "e", "d", " ", "t", "o", " ", "g", "e", "t", " ", "r", "e", "s", "p", "o", "n", "s", "e", " ", "f", "r", "o", "m", " ", "O", "l", "l", "a", "m", "a", " ", "(", "H", "T", "T", "P", " ", "4", "0", "4", ")">>,
      <<"E", "r", "r", "o", "r", ":", " ", "F", "a", "i", "l", "e", "d", " ", "t", "o", " ", "g", "e", "t", " ", "r", "e", "s", "p", "o", "n", "s", "e", " ", "f", "r", "o", "m", " ", "O", "l", "l", "a", "m", "a", " ", "(", "H", "T", "T", "P", " ", "5", "0", "0", ")">> }

\* f"Error: {str(e)}": requests names the host of ollama_url in its message
ExceptionTexts ==
    { <<"E", "r", "r", "o", "r", ":", " ", "h", "o", "s", "t", "=", "'", "l", "o", "c", "a", "l", "h", "o", "s", "t", "'", ":", " ", "R", "e", "a", "d", " ", "t", "i", "m", "e", "d", " ", "o", "u", "t", ".">>,
      <<"E", "r", "r", "o", "r", ":", " ", "h", "o", "s", "t", "=", "'", "m", ".", "l", "a", "b", "'", ":", " ", "R", "e", "a", "d", " ", "t", "i", "m", "e", "d", " ", "o", "u", "t", ".">> }


RECURSIVE Join(_)
\* the words ws, one blank between two of them
Join(ws) ==
    IF Len(ws) = 0 THEN <<>>
    ELSE IF Len(ws) = 1 THEN ws[1]
    ELSE ws[1] \o <<" ">> \o Join(Tail(ws))

SeqsUpTo(S, n) == UNION {[1..m -> S] : m \in 0..n}

\* responses of up to MaxWords words
LayoutTexts == {Join(ws) : ws \in SeqsUpTo(Words, MaxWords)}

\* responses that give g.list up to MaxArgs arguments
ArgumentTexts == {Join(<<g_list>> \o as) : as \in SeqsUpTo(ArgTokens, MaxArgs)}

Responses == LayoutTexts \cup ArgumentTexts \cup {ScenarioText}

\* what query_ollama can return: the text and how the request ended
QueryResults ==
    {[status |-> "ok", text |-> t] : t \in Responses \cup {NoResponseText}}
        \cup {[status |-> "http_error", text |-> t] : t \in HttpErrorTexts}
        \cup {[status |-> "exception", text |-> t] : t \in ExceptionTexts}

(***************************************************************************)
(* main().                                                                 *)
(***************************************************************************)
VARIABLES
    execute_flag,       \* flags['e']
    interactive,        \* flags['i']
    show_system,        \* flags['s']
    pc,                 \* where main is
    loop,               \* main is inside  while True
    response,           \* ai_response / response: the text in hand
    status,             \* how the query that gave it ended
    executed_commands,  \* the candidate list of extract_and_execute_commands
    k,                  \* the index of the for loop, from 1
    reports,            \* what the loop has called and reported, per candidate
    interrupted         \* a KeyboardInterrupt was raised

vars ==
    <<execute_flag, interactive, show_system, pc, loop, response, status,
      executed_commands, k, reports, interrupted>>

flags == <<execute_flag, interactive, show_system>>
locals == <<executed_commands, k, reports>>

Init ==
    /\ execute_flag \in BOOLEAN
    /\ interactive \in BOOLEAN
    /\ show_system \in BOOLEAN
    /\ pc = "start"
    /\ loop = FALSE
    /\ response = <<>>
    /\ status = "none"
    /\ executed_commands = <<>>
    /\ k = 1
    /\ reports = <<>>
    /\ interrupted = FALSE

\* if show_system: ...; return
ShowSystem ==
    /\ pc = "start" /\ show_system
    /\ pc' = "done"
    /\ UNCHANGED <<flags, loop, response, status, locals, interrupted>>

\* requests.get(f"{ollama_url}/api/tags"): gs.fatal ends main unless it answers 200
CheckOllama ==
    /\ pc = "start" /\ ~show_system
    /\ \E up \in BOOLEAN : pc' = IF up THEN "query" ELSE "done"
    /\ UNCHANGED <<flags, loop, response, status, locals, interrupted>>

\* ai_response = iai.query_ollama(...) and its display
QueryAI ==
    /\ pc = "query"
    /\ \E r \in QueryResults : response' = r.text /\ status' = r.status
    /\ pc' = "display"
    /\ UNCHANGED <<flags, loop, locals, interrupted>>

\* a call that does not depend on the flag
ExecuteAlways == TRUE

\* if execute_flag:
ExecuteRequested == execute_flag

\* where main goes on after a response is dealt with: the prompt of the
\* interactive loop, or the end
AfterResponse == IF loop \/ interactive THEN "prompt" ELSE "done"

\* iai.extract_and_execute_commands(response), up to the for loop
ExecuteCommands ==
    /\ pc = "display" /\ ExecuteRequested
    /\ executed_commands' = Extract(response)
    /\ k' = 1
    /\ reports' = <<>>
    /\ pc' = "dispatch"
    /\ UNCHANGED <<flags, loop, response, status, interrupted>>

\* the e flag is not set: nothing is done with the response
SkipExecution ==
    /\ pc = "display" /\ ~ExecuteRequested
    /\ pc' = AfterResponse
    /\ loop' = (AfterResponse = "prompt")
    /\ response' = <<>>
    /\ status' = "none"
    /\ UNCHANGED <<flags, locals, interrupted>>

\* one round of  for i, cmd in enumerate(executed_commands, 1)
DispatchStep ==
    /\ pc = "dispatch" /\ k <= Len(executed_commands)
    /\ \E event \in Events(executed_commands[k]) :
          /\ reports' = Append(reports, Report(executed_commands[k], event))
          /\ k' = AfterCandidate(k, Len(executed_commands), event)
    /\ UNCHANGED <<flags, pc, loop, response, status, executed_commands, interrupted>>

\* return executed_commands
Return ==
    /\ pc = "dispatch" /\ k > Len(executed_commands)
    /\ pc' = AfterResponse
    /\ loop' = (AfterResponse = "prompt")
    /\ response' = <<>>
    /\ status' = "none"
    /\ executed_commands' = <<>>
    /\ k' = 1
    /\ reports' = <<>>
    /\ UNCHANGED <<flags, interrupted>>

\* user_input = input("\ni.ai> ").strip(): a closing word, nothing, or a query
Input ==
    /\ pc = "prompt"
    /\ \/ /\ pc' = "done"
          /\ UNCHANGED <<response, status>>
       \/ UNCHANGED <<pc, response, status>>
       \/ /\ \E r \in QueryResults : response' = r.text /\ status' = r.status
          /\ pc' = "display"
    /\ UNCHANGED <<flags, loop, locals, interrupted>>

\* an except clause that catches every exception
CaughtInLoopAll(exception) == TRUE

\* except Exception as e:  the clause of the loop body catches the exceptions
\* that derive from Exception; KeyboardInterrupt derives from BaseException
CaughtInLoop(exception) == exception \in Raises

\* KeyboardInterrupt, raised at the prompt or in a round of the for loop.  The
\* except clause of the loop body does not catch it, so it leaves
\* extract_and_execute_commands; in the interactive loop  except
\* KeyboardInterrupt: break  ends the loop, in the first query main ends with
\* the exception.
KeyboardInterrupt ==
    /\ \/ pc = "prompt"
       \/ pc = "dispatch" /\ k <= Len(executed_commands)
    /\ interrupted' = TRUE
    /\ IF pc = "dispatch" /\ CaughtInLoop("KeyboardInterrupt")
       THEN /\ reports' = Append(reports, Report(executed_commands[k], "KeyboardInterrupt"))
            /\ k' = k + 1
            /\ UNCHANGED <<pc, executed_commands>>
       ELSE /\ pc' = "done"
            /\ UNCHANGED locals
    /\ UNCHANGED <<flags, loop, response, status>>

Next ==
    \/ ShowSystem
    \/ CheckOllama
    \/ QueryAI
    \/ ExecuteCommands
    \/ SkipExecution
    \/ DispatchStep
    \/ Return
    \/ Input
    \/ KeyboardInterrupt

Spec == Init /\ [][Next]_vars

(***************************************************************************)
(* What the claims speak of.                                               *)
(***************************************************************************)
\* every match of every pattern in s, with the number of its pattern
Occurrences(s) ==
    UNION {LET ms == finditer(command_patterns[p], s, 1)
           IN  {[pattern |-> p, match |-> ms[n]] : n \in DOMAIN ms} :
           p \in DOMAIN command_patterns}

\* o1 is matched before o2: an earlier pattern, or the same one further left
Before(o1, o2) ==
    \/ o1.pattern < o2.pattern
    \/ o1.pattern = o2.pattern /\ o1.match.start < o2.match.start

\* the first match that gives the string c
FirstOccurrence(occ, c) ==
    CHOOSE o \in occ :
        /\ o.match.group = c
        /\ \A o2 \in occ : o2.match.group = c => o2 = o \/ Before(o, o2)

Failures == Raises \cup {"exit1", "unknown"}

\* C1: while the dispatch loop runs, the candidates before the loop index are
\* exactly the ones reported, one report each and in list order, whatever
\* happened to them; a raise, a non-zero exit or an unknown type is reported
\* as such and the loop index still moves on by one.
C1_OneReportPerCandidate ==
    pc = "dispatch" =>
        /\ k = Len(reports) + 1
        /\ Len(reports) <= Len(executed_commands)
        /\ \A j \in DOMAIN reports :
              /\ reports[j].cmd = executed_commands[j]
              /\ reports[j].outcome \in {"success", "failed", "error", "unknown"}
              /\ reports[j].event \in Failures <=> reports[j].outcome # "success"
              /\ reports[j].event = "unknown" <=> reports[j].outcome = "unknown"

\* the loop is through a list of three candidates, each of which failed in
\* its own way: an unknown type, a host error, and a timeout or a non-zero exit
C1_Witness ==
    /\ pc = "dispatch" /\ k > Len(executed_commands)
    /\ Len(reports) >= 3
    /\ \E a, b, c \in DOMAIN reports :
          /\ a < b /\ b < c
          /\ reports[a].event = "unknown"
          /\ reports[b].event = "CalledModuleError"
          /\ reports[c].event \in {"TimeoutExpired", "exit1"}

\* C2: the candidate list, as the dispatch loop receives it, holds no string
\* twice, holds exactly the strings matched, and orders them by their first
\* match: pattern order, then text order.
C2_FirstMatchOrder ==
    pc = "dispatch" /\ reports = <<>> =>
        LET occ == Occurrences(response)
            ec == executed_commands
        IN  /\ \A i, j \in DOMAIN ec : i # j => ec[i] # ec[j]
            /\ {ec[i] : i \in DOMAIN ec} = {o.match.group : o \in occ}
            /\ \A i, j \in DOMAIN ec :
                  i < j => Before(FirstOccurrence(occ, ec[i]), FirstOccurrence(occ, ec[j]))

\* a string is matched twice, and a second string is matched as well
C2_Witness ==
    /\ pc = "dispatch"
    /\ Len(executed_commands) >= 2
    /\ \E o1, o2 \in Occurrences(response) :
          o1 # o2 /\ o1.match.group = o2.match.group

\* C3, as amended: the scenario text gives two candidates, the first running
\* from g.region to the end of the text, the second being r.info map=elevation.
C3_ScenarioGreedy ==
    pc = "dispatch" /\ response = ScenarioText =>
        executed_commands = <<g_region_rest, r_info_elevation>>

\* C3, as stated: the first candidate is the module name alone.
C3_ScenarioAsStated ==
    pc = "dispatch" /\ response = ScenarioText =>
        executed_commands = <<g_region, r_info_elevation>>

C3_Witness ==
    pc = "dispatch" /\ response = ScenarioText /\ k > Len(executed_commands)

\* C4: a candidate with a namespace prefix is called through gs.read_command;
\* one without, that starts with gdal or contains a tool name, through
\* subprocess.run; any other is called through neither and reported unknown.
C4_Routing ==
    \A j \in DOMAIN reports :
        LET r == reports[j]
            grass == \E n \in DOMAIN grass_prefixes : startswith(r.cmd, grass_prefixes[n])
            system == \/ startswith(r.cmd, gdal)
                      \/ \E n \in DOMAIN system_tools : contains(r.cmd, system_tools[n])
        IN  /\ grass => r.call.api = "gs.read_command"
            /\ ~grass /\ system => r.call.api = "subprocess.run"
            /\ ~grass /\ ~system => r.call.api = "none" /\ r.outcome = "unknown"
            /\ r.outcome = "unknown" => r.call.api = "none"

\* all three routes are taken in one list, the first of them by a candidate
\* that has a namespace prefix and a tool name in it
C4_Witness ==
    /\ pc = "dispatch"
    /\ \E a, b, c \in DOMAIN reports :
          /\ reports[a].call.api = "gs.read_command" /\ IsSystem(reports[a].cmd)
          /\ reports[b].call.api = "subprocess.run"
          /\ reports[c].call.api = "none"

\* the token assigns key: it is key=..., or it has no '=' and key is 'input'
Assigns(token, key) ==
    IF \E n \in DOMAIN token : token[n] = "="
    THEN (\A n \in DOMAIN key : key[n] # "=") /\ startswith(token, key \o <<"=">>)
    ELSE key = input

\* the value the token assigns to key
Assigned(token, key) ==
    IF \E n \in DOMAIN token : token[n] = "="
    THEN SubSeq(token, Len(key) + 2, Len(token))
    ELSE token

\* the tokens of cmd after the module name that have no '='
BareTokens(cmd) ==
    LET parts == split(cmd)
    IN  {n \in 2..Len(parts) : \A x \in DOMAIN parts[n] : parts[n][x] # "="}

\* C5, as amended: a candidate with a namespace prefix always reaches
\* gs.read_command, with its first token as the module; every later token
\* assigns a key (the text before its first '=', or 'input' if it has none),
\* and the value passed under each key is that of the last token assigning it.
C5_LastAssignmentWins ==
    \A j \in DOMAIN reports :
        LET r == reports[j]
            parts == split(r.cmd)
        IN  IsGrass(r.cmd) =>
                /\ r.call.api = "gs.read_command"
                /\ r.event # "ValueError"
                /\ r.call.module = parts[1]
                /\ \A n \in 2..Len(parts) :
                      \E key \in DOMAIN r.call.params : Assigns(parts[n], key)
                /\ \A key \in DOMAIN r.call.params :
                      \E n \in 2..Len(parts) :
                          /\ Assigns(parts[n], key)
                          /\ r.call.params[key] = Assigned(parts[n], key)
                          /\ \A m \in (n + 1)..Len(parts) : ~Assigns(parts[m], key)

\* C5, as stated: with several tokens without '=', the value of 'input' is the
\* last of them.
C5_LastBareTokenWins ==
    \A j \in DOMAIN reports :
        LET r == reports[j]
            parts == split(r.cmd)
            bare == BareTokens(r.cmd)
        IN  IsGrass(r.cmd) /\ Cardinality(bare) >= 2 =>
                /\ r.call.api = "gs.read_command"
                /\ input \in DOMAIN r.call.params
                /\ r.call.params[input] =
                       parts[CHOOSE n \in bare : \A m \in bare : m <= n]

\* a module was called for a candidate with two tokens without '=' and, after
\* them, a token input=...: the value passed as 'input' is that token's
C5_Witness ==
    \E j \in DOMAIN reports :
        LET r == reports[j]
            parts == split(r.cmd)
            bare == BareTokens(r.cmd)
        IN  /\ r.call.api = "gs.read_command" /\ r.event = "returned"
            /\ Cardinality(bare) >= 2
            /\ Cardinality(DOMAIN r.call.params) = 1
            /\ r.call.params[input] # parts[CHOOSE n \in bare : \A m \in bare : m <= n]

\* C6: without the e flag nothing is extracted and nothing is dispatched, in
\* the first query and at the prompt alike; with the s flag main ends with no
\* query made and nothing dispatched.
C6_ExecuteOnlyOnFlag ==
    /\ ~execute_flag =>
           pc # "dispatch" /\ executed_commands = <<>> /\ reports = <<>>
    /\ show_system =>
           /\ pc \in {"start", "done"}
           /\ status = "none" /\ response = <<>>
           /\ executed_commands = <<>> /\ reports = <<>>

\* a query made at the prompt without the e flag is answered with a text that
\* holds commands
C6_Witness ==
    /\ ~execute_flag /\ loop /\ pc = "display" /\ status = "ok"
    /\ Len(Extract(response)) >= 2

\* C7, as stated: from the text of a query that failed, nothing is extracted
\* and nothing is dispatched.
C7_NoDispatchOnFailedQuery ==
    status \in {"http_error", "exception"} =>
        executed_commands = <<>> /\ reports = <<>>

\* C8, as stated: a candidate of a namespace pattern holds no line break.
C8_LineBounded ==
    pc = "dispatch" =>
        \A o \in Occurrences(response) :
            o.pattern <= 7 =>
                \A n \in DOMAIN o.match.group : o.match.group[n] # "\n"

RECURSIVE SameLineArgsEnd(_, _)
\* the position after the arguments that follow position e on its line
SameLineArgsEnd(s, e) ==
    LET t == RunEnd(s, e, {" ", "\t"})
        u == RunEnd(s, t, NonSpace)
    IN  IF t > e /\ u > t THEN SameLineArgsEnd(s, u) ELSE e

\* C9, as stated: the candidate of an external tool followed by arguments on
\* its line begins with the tool name and those arguments.
C9_ToolWithArguments ==
    pc = "dispatch" =>
        \A o \in Occurrences(response) :
            LET m == o.match
                e == SameLineArgsEnd(response, m.name_end)
            IN  o.pattern >= 8 /\ e > m.name_end =>
                    /\ startswith(m.group, SubSeq(response, m.start, e - 1))
                    /\ \E n \in DOMAIN executed_commands :
                          executed_commands[n] = m.group

\* the module name stands in s as a word, with an argument after it on its line
FollowedByArgs(s, name) ==
    \E i \in 1..Len(s) :
        LET e == i + Len(name)
        IN  /\ e + 1 <= Len(s)
            /\ SubSeq(s, i, e - 1) = name
            /\ i = 1 \/ s[i - 1] \in Whitespace
            /\ s[e] = " " /\ s[e + 1] \in NonSpace

\* C10, as stated: a registered module name with more than one dot, followed
\* by arguments, gives a candidate that starts with the whole name and
\* carries arguments.
C10_MultiDotModule ==
    pc = "dispatch" =>
        \A name \in all_modules :
            (Cardinality({n \in DOMAIN name : name[n] = "."}) > 1
                 /\ FollowedByArgs(response, name))
            => \E n \in DOMAIN executed_commands :
                   LET parts == split(executed_commands[n])
                   IN  Len(parts) > 1 /\ parts[1] = name

\* C11: a KeyboardInterrupt raised while candidate k is dispatched ends the
\* dispatch loop and main with it, the interactive loop included: the step
\* that raises it leaves the candidate list and the reports of the candidates
\* before k as they are and adds none, and no step follows it, so no
\* candidate from k on is reported or called.
C11_InterruptAborts ==
    [][/\ ~interrupted
       /\ interrupted' =>
              /\ pc' = "done"
              /\ reports' = reports
              /\ executed_commands' = executed_commands
              /\ k' = k]_vars

\* at the prompt's second or later query, the interrupt came in the round of
\* a candidate that has one before it, reported, and one after it
C11_Witness ==
    /\ interrupted /\ loop /\ pc = "done"
    /\ Len(reports) >= 1
    /\ k = Len(reports) + 1
    /\ k < Len(executed_commands)
    /\ reports[1].call.api # "none"

=============================================================================
